---- MODULE Spec2Model ----
(***************************************************************************)
(* Model of xml2rfc's nroff writer (writers/nroff.py): the rendering      *)
(* operations that fill the line buffer and the break-hint ledger, and    *)
(* post_rendering, the pass that inserts the '.bp' page breaks.           *)
(*                                                                         *)
(* A line is a sequence of one-character strings, so that "first          *)
(* character" and "blank after strip()" are computed, not assumed.        *)
(***************************************************************************)
EXTENDS Integers, Sequences, FiniteSets, TLC

(* ------------------------------ bounds -------------------------------- *)

\* length of the longest synthetic buffer handed to post_rendering
BufLen == 58

\* number of rendering operations between pre_rendering and post_rendering
MaxOps == 2

\* the writer's width argument (the wrapper folds at width - 3)
width == 10

\* largest indent, continuation indent and bullet length tried on line 125
MaxIndent == 4

(* ------------------------- strings as sequences ----------------------- *)

Whitespace == {" ", "\t", "\n", "\r", "\f"}

RECURSIVE lstrip(_)
lstrip(s) ==
    IF s # <<>> /\ Head(s) \in Whitespace THEN lstrip(Tail(s)) ELSE s

RECURSIVE rstrip(_)
rstrip(s) ==
    IF s # <<>> /\ s[Len(s)] \in Whitespace
    THEN rstrip(SubSeq(s, 1, Len(s) - 1))
    ELSE s

strip(s) == rstrip(lstrip(s))

Digit(d) == CASE d = 0 -> "0" [] d = 1 -> "1" [] d = 2 -> "2" [] d = 3 -> "3"
              [] d = 4 -> "4" [] d = 5 -> "5" [] d = 6 -> "6" [] d = 7 -> "7"
              [] d = 8 -> "8" [] d = 9 -> "9"

RECURSIVE str(_)
str(n) ==
    IF n < 0 THEN <<"-">> \o str(0 - n)
    ELSE IF n < 10 THEN <<Digit(n)>>
    ELSE str(n \div 10) \o <<Digit(n % 10)>>

\* Python's '%' formatting restricted to %s conversions
RECURSIVE Format(_, _)
Format(fmt, args) ==
    IF fmt = <<>> THEN <<>>
    ELSE IF Len(fmt) >= 2 /\ fmt[1] = "%" /\ fmt[2] = "s" /\ args # <<>>
         THEN Head(args) \o Format(SubSeq(fmt, 3, Len(fmt)), Tail(args))
         ELSE <<Head(fmt)>> \o Format(Tail(fmt), args)

RECURSIVE Join(_, _)
Join(sep, parts) ==
    IF parts = <<>> THEN <<>>
    ELSE IF Len(parts) = 1 THEN Head(parts)
    ELSE Head(parts) \o sep \o Join(sep, Tail(parts))

RECURSIVE Repeat(_, _)
Repeat(x, n) == IF n <= 0 THEN <<>> ELSE <<x>> \o Repeat(x, n - 1)

(* ---------------------------- line escaper ---------------------------- *)

nroff_linestart_meta == {"'", "."}

\* Python's None, the value a function returns when it falls off its end
None == [none |-> TRUE]

startswith(line, ch) == line # <<>> /\ line[1] = ch

nroff_escape_linestart(line) ==
    IF startswith(line, "'") THEN <<"\\">> \o line
    ELSE IF startswith(line, ".") THEN <<"\\", "&">> \o line
    ELSE None

(* ------------------------------ literals ------------------------------ *)

bp == <<".", "b", "p">>
nf == <<".", "n", "f">>
fi == <<".", "f", "i">>

comment_header ==
    <<".", "\\", "\"", " ", "a", "u", "t", "o", "m", "a", "t", "i", "c", "a",
      "l", "l", "y", " ", "g", "e", "n", "e", "r", "a", "t", "e", "d", " ",
      "b", "y", " ", "x", "m", "l", "2", "r", "f", "c", " ", "v", "%", "s",
      " ", "o", "n", " ", "%", "s">>

settings_header ==
    << <<".", "p", "l", " ", "1", "0", ".", "0", "i">>,
       <<".", "p", "o", " ", "0">>,
       <<".", "l", "l", " ", "7", ".", "2", "i">>,
       <<".", "l", "t", " ", "7", ".", "2", "i">>,
       <<".", "n", "r", " ", "L", "L", " ", "7", ".", "2", "i">>,
       <<".", "n", "r", " ", "L", "T", " ", "7", ".", "2", "i">>,
       <<".", "h", "y", " ", "0">>,
       <<".", "a", "d", " ", "l">> >>

(* ------------------------------- state -------------------------------- *)

VARIABLES
    buf,          \* self.buf: the line buffer
    break_hints,  \* self.break_hints: offset -> <<linesNeeded, class>>
    curr_indent,  \* self.curr_indent
    edit_counter, \* self.edit_counter
    destbuf,      \* the caller's list last handed to write_text as buf
    toc,          \* self.toc: the table-of-contents entry lines
    pis,          \* self.pis: the processing instructions in force
    output,       \* self.output
    page_len,     \* post_rendering's page_len
    line_num,     \* post_rendering's loop index
    pc,           \* phase of the writer
    nops,         \* rendering operations performed so far
    content,      \* history: buffer offsets written as content, not commands
    hint_bp,      \* history: output positions of breaks appended at line 280
    cap_bp        \* history: output positions of breaks appended at line 283

vars == <<buf, break_hints, curr_indent, edit_counter, destbuf, toc, pis,
          output, page_len, line_num, pc, nops, content, hint_bp, cap_bp>>

renderVars == <<buf, break_hints, curr_indent, edit_counter, destbuf, toc,
                pis, nops, content>>

(* ------------------------- the writer's helpers ----------------------- *)

\* The mutable part of the writer that the rendering methods thread through
\* their calls; err is set when a method raises.
Writer ==
    [buf |-> buf, break_hints |-> break_hints, curr_indent |-> curr_indent,
     edit_counter |-> edit_counter, destbuf |-> destbuf, content |-> content,
     err |-> FALSE]

\* the assignment keeping the value a key already has
Put_KeepOld(h, k, v) ==
    [o \in DOMAIN h \cup {k} |-> IF o \in DOMAIN h THEN h[o] ELSE v]

\* self.break_hints[k] = v
Put(h, k, v) == [o \in DOMAIN h \cup {k} |-> IF o = k THEN v ELSE h[o]]

in_cmd == <<".", "i", "n", " ">>
ti_cmd == <<".", "t", "i", " ">>
ce_cmd == <<".", "c", "e", " ">>

write_nroff(w, string) == [w EXCEPT !.buf = Append(@, string)]

_indent(w, amount) ==
    IF amount # w.curr_indent
    THEN [write_nroff(w, in_cmd \o str(amount)) EXCEPT !.curr_indent = amount]
    ELSE w

\* string[0] raises IndexError on the empty string
write_line(w, string) ==
    IF string = <<>> THEN [w EXCEPT !.err = TRUE]
    ELSE LET s == IF string[1] \in nroff_linestart_meta
                  THEN nroff_escape_linestart(string) ELSE string
         IN  [w EXCEPT !.buf = Append(@, s),
                       !.content = @ \cup {Len(w.buf) + 1}]

\* buf.extend(lines), the lines being text and not commands
extend(w, lines) ==
    [w EXCEPT !.buf = @ \o lines,
              !.content = @ \cup ((Len(w.buf) + 1)..(Len(w.buf) + Len(lines)))]

\* RawTextRfcWriter._lb: one line holding the filler text, blank by default
_lb(w, text) == extend(w, <<text>>)

(* ------------------------------ wrapper ------------------------------- *)

\* positions of s, among lo..hi, that hold whitespace
Spaces(s, lo, hi) == {p \in lo..hi : p <= Len(s) /\ s[p] \in Whitespace}

Max(S) == CHOOSE x \in S : \A y \in S : y <= x
Min(S) == CHOOSE x \in S : \A y \in S : x <= y

\* self.wrapper.wrap: greedy folding at whitespace into lines of at most w
\* characters; a word longer than w stays whole on a line of its own
RECURSIVE wrap(_, _)
wrap(s, w) ==
    IF strip(s) = <<>> THEN <<>>
    ELSE IF Len(rstrip(s)) <= w THEN <<rstrip(s)>>
    ELSE LET near == Spaces(s, 2, w + 1)
             far  == Spaces(s, w + 2, Len(s))
             cut  == IF near # {} THEN Max(near)
                     ELSE IF far # {} THEN Min(far) ELSE Len(s) + 1
         IN  <<rstrip(SubSeq(s, 1, cut - 1))>>
                \o wrap(lstrip(SubSeq(s, cut + 1, Len(s))), w)

wrapper_width == width - 3

(* ----------------------------- write_text ----------------------------- *)

EscapePar(par) ==
    [i \in 1..Len(par) |->
        IF par[i][1] \in nroff_linestart_meta
        THEN nroff_escape_linestart(par[i]) ELSE par[i]]

HasBullet(bullet) == bullet # <<>> /\ Len(strip(bullet)) > 0

\* the level with the continuation indent taken as absolute
FullIndent_SubOnly(indent, sub_indent, bullet) ==
    IF sub_indent # 0 THEN sub_indent ELSE indent + Len(bullet)

\* sub_indent and indent + sub_indent or indent + len(bullet)
FullIndent(indent, sub_indent, bullet) ==
    IF sub_indent # 0 /\ indent + sub_indent # 0
    THEN indent + sub_indent
    ELSE indent + Len(bullet)

\* the buf argument: no list (buf=None), or the one list handed in
NoBuf == <<>>
Given(c) == IF c.buf = NoBuf THEN <<>> ELSE c.buf[1]

\* "if not buf: buf = self.buf": None and the empty list both select self.buf
ToSelf(c) == Given(c) = <<>>

\* buf.extend(lines) on the list selected at lines 93-94
extend_buf(w, c, lines) ==
    IF ToSelf(c) THEN extend(w, lines) ELSE [w EXCEPT !.destbuf = @ \o lines]

\* self._lb(buf=buf, text=text)
_lb_buf(w, c, text) ==
    IF ToSelf(c) THEN _lb(w, text) ELSE [w EXCEPT !.destbuf = Append(@, text)]

write_text(w, c) ==
    LET begin   == Len(w.buf)
        w0      == [w EXCEPT !.destbuf = Given(c)]
        w1      == IF c.leading_blankline
                   THEN IF c.edit /\ pis.editing = "yes"
                        THEN _lb_buf([w0 EXCEPT !.edit_counter = @ + 1], c,
                                 <<"<">> \o str(w.edit_counter + 1) \o <<">">>)
                        ELSE _lb_buf(w0, c, <<>>)
                   ELSE w0
        string1 == IF c.strip THEN lstrip(c.string) ELSE c.string
        string2 == IF HasBullet(c.bullet) THEN c.bullet \o string1 ELSE string1
        par0    == IF c.string # <<>>
                   THEN EscapePar(wrap(string2, wrapper_width)) ELSE <<>>
        w2      == IF c.string # <<>>
                   THEN IF c.align = "center"
                        THEN write_nroff(w1, ce_cmd \o str(Len(par0)))
                        ELSE _indent(w1, FullIndent(c.indent, c.sub_indent,
                                                    c.bullet))
                   ELSE w1
        w3      == IF HasBullet(c.bullet)
                   THEN write_nroff(w2, ti_cmd \o str(c.indent)) ELSE w2
        par     == IF HasBullet(c.bullet) /\ c.string = <<>>
                   THEN Append(par0, c.bullet) ELSE par0
        w4      == extend_buf(w3, c, par)
        end     == Len(w4.buf)
    IN  [w4 EXCEPT !.break_hints = Put(@, begin, <<end - begin, "txt">>)]

TextCall(string, indent, sub_indent, bullet, align, leading_blankline, edit) ==
    [string |-> string, indent |-> indent, sub_indent |-> sub_indent,
     bullet |-> bullet, align |-> align,
     leading_blankline |-> leading_blankline, buf |-> NoBuf, strip |-> TRUE,
     edit |-> edit]

\* the call c with the list lst as its buf argument
WithBuf(c, lst) == [c EXCEPT !.buf = <<lst>>]

(* ------------------------ the other renderers ------------------------- *)

toc_caption == <<"T", "a", "b", "l", "e", " ", "o", "f", " ", "C", "o", "n",
                 "t", "e", "n", "t", "s">>

\* the lines _post_write_toc appends to tmpbuf, in order
_post_write_toc(tmpbuf) ==
    tmpbuf \o << ti_cmd \o <<"0">>, toc_caption, <<>>, in_cmd \o <<"3">>, nf >>
           \o toc \o <<fi>>

write_title(w, text, docName) ==
    LET w1 == _lb(w, <<>>)
        w2 == write_text(w1, TextCall(text, 0, 0, <<>>, "center", FALSE, FALSE))
    IN  IF docName # <<>>
        THEN write_text(w2, TextCall(docName, 0, 0, <<>>, "center", FALSE, FALSE))
        ELSE w2

\* PaginatedTextRfcWriter.write_raw: the verbatim lines behind an optional
\* blank line, hinted as one "raw" block at the offset where they start
paginated_write_raw(w, lines, leading_blankline) ==
    LET begin == Len(w.buf)
        w1    == IF leading_blankline THEN _lb(w, <<>>) ELSE w
        w2    == extend(w1, lines)
    IN  [w2 EXCEPT !.break_hints = Put(@, begin, <<Len(w2.buf) - begin, "raw">>)]

write_raw(w, lines, indent, leading_blankline) ==
    LET w1 == _indent(w, indent)
        w2 == write_nroff(w1, nf)
        w3 == paginated_write_raw(w2, lines, leading_blankline)
    IN  write_nroff(w3, fi)

write_heading(w, text, bullet) ==
    LET w1      == _lb(w, <<>>)
        bullet1 == IF bullet # <<>> THEN bullet \o <<" ", " ">> ELSE bullet
        w2      == IF Len(bullet1 \o text) > width - 3
                   THEN write_nroff(w1, in_cmd \o str(Len(bullet1))) ELSE w1
        w3      == write_nroff(w2, ti_cmd \o <<"0">>)
    IN  write_line(w3, bullet1 \o text)

RECURSIVE ReplaceAll(_, _, _)
ReplaceAll(s, pat, rep) ==
    IF Len(s) < Len(pat) THEN s
    ELSE IF SubSeq(s, 1, Len(pat)) = pat
         THEN rep \o ReplaceAll(SubSeq(s, Len(pat) + 1, Len(s)), pat, rep)
         ELSE <<Head(s)>> \o ReplaceAll(Tail(s), pat, rep)

http == <<"h", "t", "t", "p", ":", "/", "/">>

urlkeep(text) == ReplaceAll(text, http, <<"\\", "%">> \o http)

write_paragraph(w, text, align) ==
    write_text(w, TextCall(urlkeep(text), 3, 0, <<>>, align, TRUE, FALSE))

(* --------------------------- post_rendering --------------------------- *)

page_maxlen == 55

IsBlank(line) == strip(line) = <<>>

\* Variants of the hint condition, each differing from the code in one place:
\*   "noadj"    the blank-line adjustment is left out
\*   "autoonly" a "break" hint is honoured only when autobreaks is on
\*   "noraw"    the "raw" clause is left out
\*   "rawgeq"   the "raw" clause compares with >= instead of >
\*   "leq2"     the heuristic tests available <= 2 instead of available < 2
\*   "anyauto"  the heuristic applies whatever autobreaks is
HintBreakVariant(n, line, pl, v) ==
    /\ n \in DOMAIN break_hints
    /\ LET available0 == page_maxlen - pl
           needed0    == break_hints[n][1]
           text_type  == break_hints[n][2]
           adj        == IsBlank(line) /\ v # "noadj"
           available  == IF adj THEN available0 - 1 ELSE available0
           needed     == IF adj THEN needed0 - 1 ELSE needed0
       IN  \/ text_type = "break" /\ (v = "autoonly" => pis.autobreaks = "yes")
           \/ /\ text_type = "raw"
              /\ v # "noraw"
              /\ IF v = "rawgeq" THEN needed >= available
                                 ELSE needed > available
           \/ /\ (v = "anyauto" \/ pis.autobreaks = "yes")
              /\ needed > available
              /\ \/ needed - available < 2
                 \/ IF v = "leq2" THEN available <= 2 ELSE available < 2

HintBreak_NoBlankAdj(n, line, pl) == HintBreakVariant(n, line, pl, "noadj")
HintBreak_AutoOnly(n, line, pl) == HintBreakVariant(n, line, pl, "autoonly")
HintBreak_NoRaw(n, line, pl) == HintBreakVariant(n, line, pl, "noraw")
HintBreak_RawGeq(n, line, pl) == HintBreakVariant(n, line, pl, "rawgeq")
HintBreak_Leq2(n, line, pl) == HintBreakVariant(n, line, pl, "leq2")
HintBreak_AnyAuto(n, line, pl) == HintBreakVariant(n, line, pl, "anyauto")

\* the condition of lines 268-279: a break is taken because of the hint
HintBreak(n, line, pl) ==
    /\ n \in DOMAIN break_hints
    /\ LET available0 == page_maxlen - pl
           needed0    == break_hints[n][1]
           text_type  == break_hints[n][2]
           available  == IF IsBlank(line) THEN available0 - 1 ELSE available0
           needed     == IF IsBlank(line) THEN needed0 - 1 ELSE needed0
       IN  \/ text_type = "break"
           \/ (text_type = "raw" /\ needed > available)
           \/ /\ pis.autobreaks = "yes"
              /\ needed > available
              /\ (needed - available < 2 \/ available < 2)

\* the capacity test that also breaks on an empty page
CapacityBreak_Empty(pl) == pl + 1 > 55 \/ pl = 0

\* the capacity test with the 58 of the comment at line 264
CapacityBreak_58(pl) == pl + 1 > 58

\* the condition of line 282, on the count left by the hint check
CapacityBreak(pl) == pl + 1 > 55

\* the loop iteration with the break command taking the slot of the line:
\* at a capacity break the line itself is not appended
PageLine_Replace(st, n) ==
    LET line == buf[n + 1]
        hb   == HintBreak(n, line, st.page_len)
        o1   == IF hb THEN Append(st.output, bp) ELSE st.output
        p1   == IF hb THEN 0 ELSE st.page_len
        cb   == CapacityBreak(p1)
    IN  [output   |-> IF cb THEN Append(o1, bp) ELSE Append(o1, line),
         page_len |-> IF cb THEN 1 ELSE p1 + 1,
         hint_bp  |-> IF hb THEN st.hint_bp \cup {Len(o1)} ELSE st.hint_bp,
         cap_bp   |-> IF cb THEN st.cap_bp \cup {Len(o1) + 1} ELSE st.cap_bp]

\* the loop iteration with a capacity break put in front of the line that
\* was appended last, instead of at the end of the output
PageLine_Insert(st, n) ==
    LET line == buf[n + 1]
        hb   == HintBreak(n, line, st.page_len)
        o1   == IF hb THEN Append(st.output, bp) ELSE st.output
        p1   == IF hb THEN 0 ELSE st.page_len
        cb   == CapacityBreak(p1)
        o2   == IF cb THEN SubSeq(o1, 1, Len(o1) - 1) \o <<bp, o1[Len(o1)]>>
                ELSE o1
        p2   == IF cb THEN 1 ELSE p1
    IN  [output   |-> Append(o2, line),
         page_len |-> p2 + 1,
         hint_bp  |-> IF hb THEN st.hint_bp \cup {Len(o1)} ELSE st.hint_bp,
         cap_bp   |-> IF cb THEN st.cap_bp \cup {Len(o1)} ELSE st.cap_bp]

\* the loop iteration with the capacity test made on the count the
\* iteration started with, whatever the hint check did
PageLine_CapFirst(st, n) ==
    LET line == buf[n + 1]
        hb   == HintBreak(n, line, st.page_len)
        o1   == IF hb THEN Append(st.output, bp) ELSE st.output
        cb   == CapacityBreak(st.page_len)
        o2   == IF cb THEN Append(o1, bp) ELSE o1
        p2   == IF hb \/ cb THEN 0 ELSE st.page_len
    IN  [output   |-> Append(o2, line),
         page_len |-> p2 + 1,
         hint_bp  |-> IF hb THEN st.hint_bp \cup {Len(o1)} ELSE st.hint_bp,
         cap_bp   |-> IF cb THEN st.cap_bp \cup {Len(o2)} ELSE st.cap_bp]

\* one iteration of the loop of post_rendering, for buffer offset n
PageLine(st, n) ==
    LET line == buf[n + 1]
        hb   == HintBreak(n, line, st.page_len)
        o1   == IF hb THEN Append(st.output, bp) ELSE st.output
        p1   == IF hb THEN 0 ELSE st.page_len
        cb   == CapacityBreak(p1)
        o2   == IF cb THEN Append(o1, bp) ELSE o1
        p2   == IF cb THEN 0 ELSE p1
    IN  [output   |-> Append(o2, line),
         page_len |-> p2 + 1,
         hint_bp  |-> IF hb THEN st.hint_bp \cup {Len(o1)} ELSE st.hint_bp,
         cap_bp   |-> IF cb THEN st.cap_bp \cup {Len(o2)} ELSE st.cap_bp]

\* the iterations for offsets n .. len(buf)-1
RECURSIVE PageFrom(_, _)
PageFrom(st, n) ==
    IF n >= Len(buf) THEN st
    ELSE LET nx == PageLine(st, n)
         \* the test evaluates nx before the next iteration starts; the
         \* count is at least 1 once a line has been appended
         IN  IF nx.page_len > 0 THEN PageFrom(nx, n + 1) ELSE nx

\* one iteration of the loop
PostRenderingStep ==
    /\ pc = "paginate"
    /\ line_num < Len(buf)
    /\ LET st == PageLine([output |-> output, page_len |-> page_len,
                           hint_bp |-> hint_bp, cap_bp |-> cap_bp], line_num)
       IN  /\ output' = st.output
           /\ page_len' = st.page_len
           /\ hint_bp' = st.hint_bp
           /\ cap_bp' = st.cap_bp
    /\ line_num' = line_num + 1
    /\ UNCHANGED <<renderVars, pc>>

\* the loop is exhausted and post_rendering returns
PostRenderingEnd ==
    /\ pc = "paginate"
    /\ line_num = Len(buf)
    /\ pc' = "done"
    /\ UNCHANGED <<renderVars, output, page_len, line_num, hint_bp, cap_bp>>

\* post_rendering as one call: the whole loop over the buffer
PostRendering ==
    /\ pc = "render"
    /\ LET st == PageFrom([output |-> output, page_len |-> 0,
                           hint_bp |-> {}, cap_bp |-> {}], 0)
       IN  /\ output' = st.output
           /\ page_len' = st.page_len
           /\ hint_bp' = st.hint_bp
           /\ cap_bp' = st.cap_bp
    /\ line_num' = Len(buf)
    /\ pc' = "done"
    /\ UNCHANGED renderVars

(* ------------------------ rendering operations ------------------------ *)

\* the writer's fields take the values a method left in w; a method that
\* raised ends the run
Commit(w) ==
    /\ buf' = w.buf
    /\ break_hints' = w.break_hints
    /\ curr_indent' = w.curr_indent
    /\ edit_counter' = w.edit_counter
    /\ destbuf' = w.destbuf
    /\ content' = w.content
    /\ pc' = IF w.err THEN "error" ELSE "render"
    /\ UNCHANGED <<toc, pis, output, page_len, line_num, hint_bp, cap_bp>>

CanRender == pc = "render" /\ nops < MaxOps

T_ab   == <<"a", "b">>
T_dot  == <<".", "a">>
T_long == <<"a", "b", "c", "d", "e", "f", "g", "h">>
T_wrap == <<"a", "b", "c", "d", " ", "'", "e", "f", " ", "g", "h">>
T_url  == http \o <<"a">>
B_o    == <<"o", " ">>
B_dot  == <<".", " ">>
B_num  == <<"1">>

Versions == {<<2, 4>>}

Timestamps ==
    {<<"2", "0", "1", "1", "-", "0", "1", "-", "0", "2", "T", "0", "3", ":",
       "0", "4", ":", "0", "5", "Z">>}

\* the header and footer strings PaginatedTextRfcWriter.pre_rendering builds
Headers ==
    {[left_header |-> <<"R", "F", "C">>, center_header |-> <<"a">>,
      right_header |-> <<"b">>, left_footer |-> <<"c">>,
      center_footer |-> <<"d">>]}

ds(reg, val) == <<".", "d", "s", " ">> \o reg \o <<" ">> \o val

pre_rendering(w, version, now, h) ==
    LET w1 == write_line(w, Format(comment_header,
                  <<Join(<<".">>, [i \in 1..Len(version) |-> str(version[i])]),
                    now>>))
        w2 == _lb(w1, <<>>)
        w3 == [w2 EXCEPT !.buf = @ \o settings_header]
        w4 == write_nroff(w3, ds(<<"L", "H">>, h.left_header))
        w5 == write_nroff(w4, ds(<<"C", "H">>, h.center_header))
        w6 == write_nroff(w5, ds(<<"R", "H">>, h.right_header))
        w7 == write_nroff(w6, ds(<<"L", "F">>, h.left_footer))
        w8 == write_nroff(w7, ds(<<"C", "F">>, h.center_footer))
    IN  write_nroff(w8, <<".", "d", "s", " ", "R", "F", " ", "F", "O", "R",
                          "M", "F", "E", "E", "D", "[", "P", "a", "g", "e",
                          " ", "%", "]">>)

PreRendering ==
    /\ pc = "init"
    /\ \E v \in Versions, t \in Timestamps, h \in Headers :
          Commit(pre_rendering(Writer, v, t, h))
    /\ UNCHANGED nops

TextCalls ==
    { TextCall(T_wrap, 3, 0, <<>>, "left", TRUE, TRUE),
      TextCall(<<>>, 3, 0, B_dot, "left", FALSE, FALSE),
      TextCall(T_ab, 3, 0, B_o, "left", FALSE, FALSE),
      TextCall(T_dot, 3, 2, <<>>, "left", FALSE, FALSE),
      TextCall(<<>>, 0, 0, <<>>, "left", FALSE, FALSE),
      TextCall(T_wrap, 0, 0, <<>>, "center", FALSE, FALSE),
      WithBuf(TextCall(T_ab, 3, 0, <<>>, "left", TRUE, FALSE), <<T_dot>>),
      WithBuf(TextCall(T_ab, 0, 0, <<>>, "left", FALSE, FALSE), <<>>),
      WithBuf(TextCall(T_wrap, 0, 0, <<>>, "center", FALSE, FALSE), <<T_ab>>) }

WriteText ==
    /\ CanRender
    /\ \E c \in TextCalls : Commit(write_text(Writer, c))
    /\ nops' = nops + 1

WriteParagraph ==
    /\ CanRender
    /\ \E text \in {T_ab, T_url}, align \in {"left", "center"} :
          Commit(write_paragraph(Writer, text, align))
    /\ nops' = nops + 1

WriteTitle ==
    /\ CanRender
    /\ \E docName \in {<<>>, T_dot} : Commit(write_title(Writer, T_ab, docName))
    /\ nops' = nops + 1

RawSizes == {1, 30}

WriteRaw ==
    /\ CanRender
    /\ \E n \in RawSizes :
          Commit(write_raw(Writer, Repeat(<<"x">>, n), 3, TRUE))
    /\ nops' = nops + 1

WriteHeading ==
    /\ CanRender
    /\ \E h \in {<<T_ab, <<>> >>, <<T_long, B_num>>, << <<>>, <<>> >>} :
          Commit(write_heading(Writer, h[1], h[2]))
    /\ nops' = nops + 1

WriteLine ==
    /\ CanRender
    /\ \E s \in {T_ab, T_dot} : Commit(write_line(Writer, s))
    /\ nops' = nops + 1

\* the table of contents enters the buffer as one block hinted "txt"
WriteToc ==
    /\ CanRender
    /\ LET begin == Len(buf)
           lines == _post_write_toc(<<>>)
           w1    == [Writer EXCEPT !.buf = @ \o lines,
                        !.content = @ \cup {begin + 2, begin + 3}
                            \cup ((begin + 6)..(begin + 5 + Len(toc)))]
       IN  Commit([w1 EXCEPT !.break_hints =
                        Put(@, begin, <<Len(lines), "txt">>)])
    /\ nops' = nops + 1

TocEntries == << <<"1", " ", "a">>, <<"'", "b">> >>

Init ==
    /\ buf = <<>>
    /\ break_hints = <<>>
    /\ curr_indent = 0
    /\ edit_counter = 0
    /\ destbuf = <<>>
    /\ toc = TocEntries
    /\ pis \in [autobreaks : {"yes", "no"}, editing : {"yes", "no"}]
    /\ output = <<>>
    /\ page_len = 0
    /\ line_num = 0
    /\ pc = "init"
    /\ nops = 0
    /\ content = {}
    /\ hint_bp = {}
    /\ cap_bp = {}

Next ==
    \/ PreRendering
    \/ WriteText
    \/ WriteParagraph
    \/ WriteTitle
    \/ WriteRaw
    \/ WriteHeading
    \/ WriteLine
    \/ WriteToc
    \/ PostRendering

Spec == Init /\ [][Next]_vars

(* ----------------- post_rendering on a given buffer ------------------- *)

HintTypes == {"txt", "raw", "break"}

BufLens == {0, 3, page_maxlen, BufLen}

PageOffsets == {0, 46, 50, 53, 54, 55, 99}

NeededVals == {0, 2, 10, 55, 56, 57}

FirstHints == [off : PageOffsets, needed : NeededVals, type : HintTypes,
               blank : BOOLEAN]

SecondHints == [off : {1, 55, 56}, needed : {1}, type : HintTypes,
                blank : {FALSE}]

HintChoices ==
    {{}} \cup {{h} : h \in FirstHints}
         \cup {{p[1], p[2]} : p \in
                 {q \in FirstHints \X SecondHints : q[1].off # q[2].off}}

LedgerOf(hs) ==
    [o \in {h.off : h \in hs} |->
        LET h == CHOOSE x \in hs : x.off = o IN <<h.needed, h.type>>]

\* line i of a synthetic buffer: its own offset in decimal, or a blank line
BufferOf(len, hs) ==
    [i \in 1..len |->
        IF \E h \in hs : h.off = i - 1 /\ h.blank THEN <<>> ELSE str(i - 1)]

\* a buffer of more than two full pages
LongLen == 2 * page_maxlen + 1

\* the buffers and ledgers tried: the short buffers with every ledger, the
\* long buffer with the ledgers of at most one hint
PageInputs ==
    (BufLens \X HintChoices)
        \cup ({LongLen} \X ({{}} \cup {{h} : h \in FirstHints}))

\* the writer at the call of post_rendering: any buffer, any ledger
InitPage ==
    /\ \E in \in PageInputs :
          /\ buf = BufferOf(in[1], in[2])
          /\ break_hints = LedgerOf(in[2])
          /\ content = 1..in[1]
    /\ \E a \in {"yes", "no"} : pis = [autobreaks |-> a, editing |-> "no"]
    /\ curr_indent = 0
    /\ edit_counter = 0
    /\ destbuf = <<>>
    /\ toc = <<>>
    /\ output = <<>>
    /\ page_len = 0
    /\ line_num = 0
    /\ pc = "paginate"
    /\ nops = 0
    /\ hint_bp = {}
    /\ cap_bp = {}

NextPage == PostRenderingStep \/ PostRenderingEnd

SpecPage == InitPage /\ [][NextPage]_vars

(* ------------------------------ claims -------------------------------- *)

Breaks == hint_bp \cup cap_bp

SrcOf(p) == p - Cardinality({b \in Breaks : b < p})

\* the output position of the line at 0-based buffer offset o
OutPos(o) == CHOOSE p \in 1..Len(output) : p \notin Breaks /\ SrcOf(p) = o + 1

Hinted(o, needed, type) ==
    o \in DOMAIN break_hints /\ break_hints[o] = <<needed, type>>

\* C2: post_rendering is total and lossless. At every point of the pass the
\* Output with the inserted breaks removed is the Buffer up to the current
\* line, every inserted position holds '.bp', and the pass can always take
\* its next step until it has returned; at the end the Output without the
\* breaks is exactly the Buffer.
C2_Lossless ==
    /\ line_num \in 0..Len(buf)
    /\ Len(output) = line_num + Cardinality(Breaks)
    /\ \A p \in 1..Len(output) :
          IF p \in Breaks THEN output[p] = bp
          ELSE output[p] = buf[SrcOf(p)]
    /\ pc = "done" => line_num = Len(buf)
    /\ pc = "done" \/ ENABLED NextPage

\* C2 witness: a finished pass over a buffer with a hint outside the buffer
\* and a hint whose linesNeeded is wrong, breaks having been inserted
C2_Witness ==
    /\ pc = "done"
    /\ Len(buf) = BufLen
    /\ Hinted(99, 10, "raw")
    /\ Hinted(1, 1, "break")
    /\ hint_bp # {} /\ cap_bp # {}

\* a "raw" hint that write_raw recorded, for a block of at most 55 lines
RawBlocks ==
    {o \in DOMAIN break_hints :
        break_hints[o][2] = "raw" /\ break_hints[o][1] \in 1..55}

NoBreakWithin(first, last) ==
    \A b \in Breaks : ~(OutPos(first) < b /\ b < OutPos(last))

C4_Original ==
    pc = "done" =>
        \A p \in 1..Len(output) :
            (p \notin Breaks /\ SrcOf(p) \in content)
                => ~(output[p] # <<>> /\ output[p][1] \in nroff_linestart_meta)

\* the levels of the '.in N' commands of the buffer, in buffer order
IsInCmd(i) ==
    /\ i \notin content
    /\ Len(buf[i]) > 4
    /\ SubSeq(buf[i], 1, 4) = in_cmd

\* C5: the '.in N' commands of the Buffer, read in order, never show the
\* same level twice in succession.
C5_Original ==
    \A i, j \in DOMAIN buf :
        (i < j /\ IsInCmd(i) /\ IsInCmd(j)
            /\ \A k \in (i + 1)..(j - 1) : ~IsInCmd(k))
        => buf[i] # buf[j]

AtHint(type) ==
    /\ pc = "paginate"
    /\ line_num < Len(buf)
    /\ line_num \in DOMAIN break_hints
    /\ break_hints[line_num][2] = type

\* C6: when the pass reaches an offset hinted "break" it appends exactly one
\* '.bp' and then the line, and the page count restarts (it is 1 once the
\* line is appended), whatever the count, linesNeeded and autobreaks are.
C6_ForcedBreak ==
    [][AtHint("break") =>
          /\ output' = output \o <<bp, buf[line_num + 1]>>
          /\ page_len' = 1
          /\ hint_bp' = hint_bp \cup {Len(output) + 1}
          /\ cap_bp' = cap_bp]_vars

\* C6 witness: a "break" hint was reached on a full page with autobreaks
\* off, and one break precedes the line
C6_Witness ==
    /\ pc = "paginate"
    /\ line_num = 56
    /\ pis.autobreaks = "no"
    /\ 55 \in DOMAIN break_hints /\ break_hints[55][2] = "break"
    /\ Breaks = {56}
    /\ page_len = 1

C8_Case ==
    /\ pis.autobreaks = "yes"
    /\ Hinted(53, 10, "txt")
    /\ 54 \notin DOMAIN break_hints
    /\ 55 \notin DOMAIN break_hints
    /\ line_num > 53
    /\ \A b \in Breaks : b > 53

\* C8 as stated: whatever the paragraph's first line is, no break precedes
\* it, and the next break is the capacity break two lines later.
C8_Original ==
    C8_Case => /\ 54 \notin Breaks
               /\ line_num > 55 => (56 \in cap_bp /\ 55 \notin Breaks)

\* C8 amended: when the paragraph's first line is not blank no break
\* precedes it and the next break is the capacity break two lines later;
\* when it is blank, a hint-driven break precedes it.
C8_NoBreakAt53 ==
    C8_Case =>
        IF IsBlank(buf[54])
        THEN 54 \in hint_bp
        ELSE /\ 54 \notin Breaks
             /\ line_num > 55 => (56 \in cap_bp /\ 55 \notin Breaks)

\* C8 witness: the paragraph started at count 53 without a break and the
\* capacity break came after two of its lines
C8_Witness ==
    /\ C8_Case
    /\ ~IsBlank(buf[54])
    /\ line_num > 55
    /\ Breaks = {56}

\* C9: with autobreaks on, at an offset hinted "txt" the hint-driven break is
\* taken exactly when needed > available and (needed - available < 2 or
\* available < 2), available being 55 - page count and both reduced by 1
\* when the line is blank; linesNeeded = 10 breaks at count 54 and puts no
\* break before the line at count 50.
C9_FlowRule ==
    [][(AtHint("txt") /\ pis.autobreaks = "yes") =>
          LET blank     == IsBlank(buf[line_num + 1])
              available == (55 - page_len) - (IF blank THEN 1 ELSE 0)
              needed    == break_hints[line_num][1] - (IF blank THEN 1 ELSE 0)
              taken     == (Len(output) + 1) \in hint_bp'
          IN  /\ taken <=> /\ needed > available
                           /\ (needed - available < 2 \/ available < 2)
              /\ (break_hints[line_num][1] = 10 /\ page_len = 54) => taken
              /\ (break_hints[line_num][1] = 10 /\ page_len = 50)
                    => output' = Append(output, buf[line_num + 1])]_vars

\* C9 witness: linesNeeded = 10 reached at count 54, break taken
C9_Witness ==
    /\ pis.autobreaks = "yes"
    /\ Hinted(54, 10, "txt")
    /\ line_num = 55
    /\ hint_bp = {55}
    /\ cap_bp = {}

\* C10: the comment line of pre_rendering is in the Buffer, and in Output,
\* as a command: it is the first line, its first character is '.', and the
\* settings header follows it.
C10_Original ==
    /\ pc \in {"render", "done"} =>
          (startswith(buf[1], ".") /\ buf[3] = settings_header[1])
    /\ pc = "done" => startswith(output[1], ".")

InCmds == {i \in DOMAIN buf : IsInCmd(i)}

\* C11: curr_indent is the level of the last '.in N' command of the Buffer,
\* or 0 when the Buffer holds none.
C11_Original ==
    IF InCmds = {} THEN curr_indent = 0
    ELSE buf[Max(InCmds)] = in_cmd \o str(curr_indent)

\* C12 as stated: every key of the ledger is an index of a Buffer line.
C12_Original ==
    \A k \in DOMAIN break_hints : 0 <= k /\ k < Len(buf)

\* C12 amended: every key of the ledger satisfies 0 <= offset <= len(Buffer),
\* a hint is never removed, and a write_text call leaves at the offset where
\* it started its own hint alone, whatever was recorded there before.
C12_HintOffsets ==
    [][/\ \A k \in DOMAIN break_hints' : 0 <= k /\ k <= Len(buf')
       /\ DOMAIN break_hints \subseteq DOMAIN break_hints'
       /\ \A c \in TextCalls :
             (CanRender /\ Commit(write_text(Writer, c)))
                => break_hints'[Len(buf)] = <<Len(buf') - Len(buf), "txt">>]_vars

\* C12 witness: the last call appended nothing, so its hint sits at
\* len(Buffer), where no line is
C12_Witness ==
    /\ pc = "render"
    /\ nops = 2
    /\ Hinted(Len(buf), 0, "txt")

\* the lines the call c produced in the step: those appended to the Buffer
\* and those appended to the list handed in as buf
Produced(c) == (Len(buf') - Len(buf)) + (Len(destbuf') - Len(Given(c)))

\* C13: every write_text call records, at the offset where it started, a hint
\* of class "txt" whose linesNeeded is the number of lines the call produced,
\* also when the call is handed a destination list through buf.
C13_Original ==
    [][\A c \in TextCalls :
          (CanRender /\ Commit(write_text(Writer, c)))
             => /\ Len(buf) \in DOMAIN break_hints'
                /\ break_hints'[Len(buf)] = <<Produced(c), "txt">>]_vars

\* the lines a step appended to the Buffer
NewLines == {buf'[i] : i \in (Len(buf) + 1)..Len(buf')}

\* a step that is the call write_text(c) with left alignment and text
LeftTextStep(c) ==
    /\ CanRender
    /\ Commit(write_text(Writer, c))
    /\ c.align = "left"
    /\ c.string # <<>>

\* the tracker was handed lvl: it holds lvl afterwards, and emitted the
\* command for lvl if lvl differed from what it held
Tracked(lvl) ==
    /\ curr_indent' = lvl
    /\ lvl # curr_indent => (in_cmd \o str(lvl)) \in NewLines

\* C14 as stated: the level handed to the tracker is sub_indent itself when
\* sub_indent is non-zero, and indent + len(bullet) otherwise.
C14_Original ==
    [][\A c \in TextCalls :
          LeftTextStep(c)
             => Tracked(IF c.sub_indent # 0 THEN c.sub_indent
                        ELSE c.indent + Len(c.bullet))]_vars

\* C14 amended: the level handed to the tracker is indent + sub_indent when
\* sub_indent is non-zero, and indent + len(bullet) otherwise; line 125
\* computes exactly that for all levels and bullet lengths up to MaxIndent.
C14_EffectiveIndent ==
    [][/\ \A c \in TextCalls :
             LeftTextStep(c)
                => Tracked(IF c.sub_indent # 0 THEN c.indent + c.sub_indent
                           ELSE c.indent + Len(c.bullet))
       /\ \A i \in 0..MaxIndent, s \in 0..MaxIndent, b \in 0..MaxIndent :
             FullIndent(i, s, Repeat("o", b)) =
                IF s # 0 THEN i + s ELSE i + b]_vars

\* C14 witness: write_text('.a', indent=3, sub_indent=2) has set the level 5
C14_Witness ==
    /\ pc = "render"
    /\ nops > 0
    /\ curr_indent = 5
    /\ Len(buf) > 1
    /\ buf[Len(buf)] = <<"\\", "&", ".", "a">>
    /\ buf[Len(buf) - 1] = in_cmd \o <<"5">>

\* C15: at most one break command is inserted before any Buffer line. No two
\* inserted breaks are adjacent, no position is both a hint break and a
\* capacity break, Output never ends with an inserted break, and the line
\* right after an inserted break is the next line of the Buffer.
C15_OneBreakPerLine ==
    /\ hint_bp \cap cap_bp = {}
    /\ \A b \in Breaks :
          /\ b + 1 \notin Breaks
          /\ b < Len(output)
          /\ output[b] = bp
          /\ output[b + 1] = buf[SrcOf(b + 1)]
    /\ Cardinality(Breaks) <= line_num

\* C15 witness: a hint break was taken before offset 55 with the page full,
\* where the capacity test alone would also have broken
C15_Witness ==
    /\ pc = "done"
    /\ Len(buf) = BufLen
    /\ Hinted(55, 2, "break")
    /\ hint_bp = {56}
    /\ cap_bp = {}

NewOffsets == (Len(buf) + 1)..Len(buf')

IsCmd(line, cmd) == Len(line) >= Len(cmd) /\ SubSeq(line, 1, Len(cmd)) = cmd

\* a step that is the call write_text(c) with center alignment and text
CenterTextStep(c) ==
    /\ CanRender
    /\ Commit(write_text(Writer, c))
    /\ c.align = "center"
    /\ c.string # <<>>

\* the step left curr_indent alone, appended no '.in' and appended one
\* '.ce N', N being the number of content lines appended to the Buffer
\* after that command
CenterEffect ==
    /\ curr_indent' = curr_indent
    /\ \A i \in NewOffsets : ~IsCmd(buf'[i], in_cmd)
    /\ Cardinality({i \in NewOffsets : IsCmd(buf'[i], ce_cmd)}) = 1
    /\ \A i \in NewOffsets :
          IsCmd(buf'[i], ce_cmd)
             => buf'[i] = ce_cmd \o
                   str(Cardinality({j \in (i + 1)..Len(buf') : j \in content'}))

\* C17: a write_text call with center alignment and non-empty text leaves
\* curr_indent unchanged, emits no '.in', and emits one '.ce N' with N the
\* number of content lines the call then appends to the Buffer.
C17_Original ==
    [][\A c \in TextCalls : CenterTextStep(c) => CenterEffect]_vars

\* the part of C17 that holds: the same, for the calls whose text goes to
\* the Buffer (no list, or an empty one, handed in as buf)
C17_CenterToBuffer ==
    [][\A c \in TextCalls :
          (CenterTextStep(c) /\ ToSelf(c)) => CenterEffect]_vars

\* C18: post_rendering only appends. Every step of the pass leaves the Output
\* it found as a prefix of the Output it leaves, so the Output so far is
\* always a prefix of the final Output; and no step changes the Buffer, the
\* ledger or curr_indent.
C18_AppendOnly ==
    [][/\ Len(output) <= Len(output')
       /\ SubSeq(output', 1, Len(output)) = output
       /\ UNCHANGED <<buf, break_hints, curr_indent>>]_vars

\* C18 witness: a finished pass over more than two pages that inserted both
\* a hint break and capacity breaks
C18_Witness ==
    /\ pc = "done"
    /\ Len(buf) = LongLen
    /\ hint_bp # {}
    /\ cap_bp # {}
    /\ Len(output) = Len(buf) + Cardinality(Breaks)

\* C19 as stated: no break is inserted while the page is empty, so Output
\* does not begin with a break and no break follows another.
C19_Original ==
    /\ 1 \notin Breaks
    /\ \A b \in Breaks : (b - 1) \notin Breaks

\* the hint at offset 0 makes line 275-279 true on the empty first page: a
\* "break" hint, a "raw" hint of more than 55 lines, or with autobreaks on
\* a hint of exactly 56 lines
LeadingHint ==
    /\ 0 \in DOMAIN break_hints
    /\ \/ break_hints[0][2] = "break"
       \/ break_hints[0][2] = "raw" /\ break_hints[0][1] > page_maxlen
       \/ pis.autobreaks = "yes" /\ break_hints[0][1] = page_maxlen + 1

\* C19 amended: the page holds at least one line once the first line has
\* been passed, so every break but a leading one is inserted on a non-empty
\* page and directly follows a line; the capacity test never breaks on an
\* empty page; and Output begins with a break exactly when the hint at
\* offset 0 demands one.
C19_LeadingBreakOnly ==
    /\ line_num > 0 => page_len >= 1
    /\ 1 \notin cap_bp
    /\ \A b \in Breaks : b > 1 => (b - 1) \notin Breaks
    /\ line_num > 0 => (1 \in hint_bp <=> LeadingHint)

\* C19 witness: a "raw" hint of 56 lines at offset 0 has put a break in front
\* of the first line
C19_Witness ==
    /\ pc = "done"
    /\ Len(buf) = BufLen
    /\ Hinted(0, 56, "raw")
    /\ 1 \in hint_bp
    /\ output[1] = bp

====
